---- MODULE Spec2Model ----
(***************************************************************************)
(* Quantum Sniper dashboard (src/dashboard/app/page.tsx): the fetch cycle, *)
(* the connectivity flag, the polling effect and the log-to-series         *)
(* extractor processZScoreHistory.                                         *)
(*                                                                         *)
(* Time is counted in ticks of half an hour since 2026-01-05T00:00Z, so    *)
(* that rounding a timestamp down to the hour is not the identity.         *)
(* Decimal numbers are held in thousandths (1.23 is 1230).                 *)
(***************************************************************************)
EXTENDS Integers, Sequences, FiniteSets, TLC

\* ------------------------------------------------------------------------
\* Bounds of the model
\* ------------------------------------------------------------------------
MaxLogs == 2

MaxWrites == 1

MaxInFlight == 2

MaxClock == 1

MaxFailures == 1

TicksPerHour == 2

MaxTrades == 3

MaxMigrations == 2

\* Significant decimal digits a Number keeps (JavaScript keeps 53 binary ones).
FloatDigits == 3

\* Hours in a day, and buckets the extractor starts with.
HoursPerDay == 24

\* ------------------------------------------------------------------------
\* JavaScript values
\* ------------------------------------------------------------------------
\* A number, NaN or a string held under a key of a bucket object.
Num(x) == [kind |-> "num", v |-> x, str |-> ""]

NaN == [kind |-> "nan", v |-> 0, str |-> ""]

Str(s) == [kind |-> "str", v |-> 0, str |-> s]

\* ------------------------------------------------------------------------
\* Characters of a message.  The literal text "Z-Score calculated" is one
\* token; every other token is one character.
\* ------------------------------------------------------------------------
ZS == "Z-Score calculated"

Digits == {"0", "1", "2", "3", "5"}

DigitVal(c) ==
  CASE c = "0" -> 0 [] c = "1" -> 1 [] c = "2" -> 2 [] c = "3" -> 3 [] c = "5" -> 5

\* The character class [-\d.] of the pattern.
InClass(c) == c \in Digits \cup {"-", "."}

\* \s of the pattern.
IsSpace(c) == c = " "

\* log.message.includes("Z-Score calculated")
Includes(msg) == \E i \in 1..Len(msg) : msg[i] = ZS

\* The end of the longest run of tokens of class cls ("space" or "class")
\* that starts at i (i - 1 when msg[i] is not of that class).
RECURSIVE RunEnd(_, _, _)
RunEnd(msg, i, cls) ==
  IF i <= Len(msg) /\ ((cls = "space" /\ IsSpace(msg[i])) \/ (cls = "class" /\ InClass(msg[i])))
  THEN RunEnd(msg, i + 1, cls)
  ELSE i - 1

\* The capture group of /Z-Score calculated:\s*([-\d.]+)/ tried at position i:
\* <<>> when the pattern does not match there.
CaptureAt(msg, i) ==
  IF i + 1 <= Len(msg) /\ msg[i] = ZS /\ msg[i + 1] = ":"
  THEN LET s == RunEnd(msg, i + 2, "space") + 1
           e == RunEnd(msg, s, "class")
       IN  IF e >= s THEN SubSeq(msg, s, e) ELSE <<>>
  ELSE <<>>

\* log.message.match(/Z-Score calculated:\s*([-\d.]+)/): the capture of the
\* leftmost match, <<>> for null (a capture is never empty).
Match(msg) ==
  LET hits == {i \in 1..Len(msg) : CaptureAt(msg, i) # <<>>}
  IN  IF hits = {} THEN <<>>
      ELSE CaptureAt(msg, CHOOSE i \in hits : \A j \in hits : i <= j)

\* ------------------------------------------------------------------------
\* parseFloat: the longest prefix that is a StrDecimalLiteral
\* ([+-]? (digits [. digits*]? | . digits)), NaN when there is none.
\* ------------------------------------------------------------------------
RECURSIVE DigitsEnd(_, _)
DigitsEnd(s, i) ==
  IF i <= Len(s) /\ s[i] \in Digits THEN DigitsEnd(s, i + 1) ELSE i - 1

RECURSIVE DigitsValue(_)
DigitsValue(ds) ==
  IF ds = <<>> THEN 0
  ELSE 10 * DigitsValue(SubSeq(ds, 1, Len(ds) - 1)) + DigitVal(ds[Len(ds)])

\* The fraction digits fs as thousandths (digits after the third are cut).
FracValue(fs) ==
  LET d(k) == IF k <= Len(fs) THEN DigitVal(fs[k]) ELSE 0
  IN  100 * d(1) + 10 * d(2) + d(3)

ParseFloat(s) ==
  LET neg      == Len(s) >= 1 /\ s[1] = "-"
      b        == IF neg THEN 2 ELSE 1
      intEnd   == DigitsEnd(s, b)
      hasInt   == intEnd >= b
      hasDot   == intEnd + 1 <= Len(s) /\ s[intEnd + 1] = "."
      fracEnd  == IF hasDot THEN DigitsEnd(s, intEnd + 2) ELSE intEnd
      hasFrac  == hasDot /\ fracEnd >= intEnd + 2
      ip       == IF hasInt THEN DigitsValue(SubSeq(s, b, intEnd)) ELSE 0
      fp       == IF hasFrac THEN FracValue(SubSeq(s, intEnd + 2, fracEnd)) ELSE 0
      mag      == 1000 * ip + fp
  IN  IF hasInt \/ hasFrac
      THEN Num(IF neg THEN 0 - mag ELSE mag)
      ELSE NaN

\* ------------------------------------------------------------------------
\* Date: local time.  A time zone is [offset, hasDst, spring]: the whole
\* hours local standard time is ahead of UTC, and the UTC hour (counted
\* from the epoch) at which clocks are set one hour forward, if any.
\* ------------------------------------------------------------------------
UTCZone == [offset |-> 0, hasDst |-> FALSE, spring |-> 0]

\* US Eastern time: the clocks go from 02:00 to 03:00 on 2026-03-08
\* (07:00Z, 62 days and 7 hours after the epoch).
EasternZone == [offset |-> -5, hasDst |-> TRUE, spring |-> 62 * HoursPerDay + 7]

TimeZones == {UTCZone, EasternZone}

\* The UTC hour of an instant.
HourOf(t) == t \div TicksPerHour

Dst(h, tz) == tz.hasDst /\ h >= tz.spring

\* The local wall-clock hour (24 * local day + hour of day) of UTC hour h.
WallHour(h, tz) == h + tz.offset + (IF Dst(h, tz) THEN 1 ELSE 0)

\* Date.prototype.getHours
GetHours(t, tz) == WallHour(HourOf(t), tz) % HoursPerDay

\* The UTC hour of the local wall-clock hour w.  A wall-clock hour skipped by
\* the clock change is read with the offset in force before the change
\* (ECMA-262 21.4.1.26 UTC(t)), which lands one wall-clock hour later.
FromWall(w, tz) ==
  LET h0 == w - tz.offset
  IN  IF ~Dst(h0, tz) THEN h0
      ELSE IF Dst(h0 - 1, tz) THEN h0 - 1
      ELSE h0

\* d = new Date(now); d.setHours(k, 0, 0, 0): hour k of now's local day.
SetHours(now, k, tz) ==
  LET day == WallHour(HourOf(now), tz) \div HoursPerDay
  IN  FromWall(day * HoursPerDay + k, tz) * TicksPerHour

\* d = new Date(timestamp); d.setMinutes(0, 0, 0)
SetMinutesZero(t) == HourOf(t) * TicksPerHour

\* toLocaleTimeString("en-US", {hour: "2-digit", minute: "2-digit"}) of an
\* instant on the hour.
HourLabel ==
  << "12:00 AM", "01:00 AM", "02:00 AM", "03:00 AM", "04:00 AM", "05:00 AM",
     "06:00 AM", "07:00 AM", "08:00 AM", "09:00 AM", "10:00 AM", "11:00 AM",
     "12:00 PM", "01:00 PM", "02:00 PM", "03:00 PM", "04:00 PM", "05:00 PM",
     "06:00 PM", "07:00 PM", "08:00 PM", "09:00 PM", "10:00 PM", "11:00 PM" >>

ToLocaleTimeString(t, tz) == HourLabel[GetHours(t, tz) + 1]

\* ------------------------------------------------------------------------
\* Map<string, object> in insertion order, and objects as functions from
\* their keys.
\* ------------------------------------------------------------------------
MapHas(m, k) == \E i \in 1..Len(m) : m[i].key = k

MapIndex(m, k) == CHOOSE i \in 1..Len(m) : m[i].key = k

MapGet(m, k) == m[MapIndex(m, k)].value

\* Map.prototype.set: a key already present keeps its place.
MapSet(m, k, v) ==
  IF MapHas(m, k)
  THEN [m EXCEPT ![MapIndex(m, k)] = [key |-> k, value |-> v]]
  ELSE Append(m, [key |-> k, value |-> v])

\* obj[k] = v
ObjSet(o, k, v) == [x \in DOMAIN o \cup {k} |-> IF x = k THEN v ELSE o[x]]

\* ------------------------------------------------------------------------
\* processZScoreHistory
\* ------------------------------------------------------------------------
\* The first loop: i = 23 down to 0, done the first n times.
RECURSIVE InitBuckets(_, _, _)
InitBuckets(n, now, tz) ==
  IF n = 0 THEN <<>>
  ELSE LET i         == HoursPerDay - n
           d         == SetHours(now, GetHours(now, tz) - i, tz)
           timeLabel == ToLocaleTimeString(d, tz)
       IN  MapSet(InitBuckets(n - 1, now, tz), timeLabel,
                  [x \in {"time"} |-> Str(timeLabel)])

\* The body of logs.forEach for one log.
ParseLog(historyMap, log, tz) ==
  IF Includes(log.message)
  THEN LET match == Match(log.message)
       IN  IF match # <<>>
           THEN LET val         == ParseFloat(match)
                    d           == SetMinutesZero(log.timestamp)
                    bucketLabel == ToLocaleTimeString(d, tz)
                IN  IF MapHas(historyMap, bucketLabel)
                    THEN MapSet(historyMap, bucketLabel,
                                ObjSet(MapGet(historyMap, bucketLabel), log.source, val))
                    ELSE historyMap
           ELSE historyMap
  ELSE historyMap

RECURSIVE ParseLogs(_, _, _)
ParseLogs(historyMap, logs, tz) ==
  IF logs = <<>> THEN historyMap
  ELSE ParseLogs(ParseLog(historyMap, Head(logs), tz), Tail(logs), tz)

\* Array.from(historyMap.values())
processZScoreHistory(logs, now, tz) ==
  LET historyMap == ParseLogs(InitBuckets(HoursPerDay, now, tz), logs, tz)
  IN  [k \in 1..Len(historyMap) |-> historyMap[k].value]

\* ------------------------------------------------------------------------
\* Rows and placeholder data.  Only the columns the dashboard's logic reads
\* are kept; the tables other than bot_state are kept in timestamp order, so
\* the timestamp of a trade or a sentiment reading is its place in its table.
\* ------------------------------------------------------------------------
Undefined == [kind |-> "undefined", v |-> 0, str |-> ""]

Null == [kind |-> "null", v |-> 0, str |-> ""]

\* "2026-01-05T12:00:00.000Z"
INITIAL_TIMESTAMP == 12 * TicksPerHour

BotState(sym, active, z) == [symbol |-> sym, is_active |-> active, current_z |-> z]

MOCK_BOT_STATES ==
  << BotState("ATOM/DOT", FALSE, Undefined),
     BotState("SAND/MANA", FALSE, Undefined),
     BotState("CRV/CVX", FALSE, Undefined) >>

MOCK_SENTIMENT == [id |-> 0, risk_score |-> 35]

TradeLog(id, type, pnl) == [id |-> id, type |-> type, pnl_percent |-> pnl]

MOCK_TRADE_LOGS == << TradeLog(1, "INIT", Num(0)) >>

SystemLog(id, ts, src, msg) ==
  [id |-> id, timestamp |-> ts, source |-> src, message |-> msg]

MOCK_SYSTEM_LOGS ==
  << SystemLog(1, INITIAL_TIMESTAMP, "SYSTEM", <<"Dashboard initialized">>) >>

\* ------------------------------------------------------------------------
\* The backing store and its four queries
\* ------------------------------------------------------------------------
Resources == <<"bot_state", "market_sentiment", "trade_logs", "system_logs">>

\* The moment the dashboard is opened: 2026-01-06T10:30Z.
StartNow == (HoursPerDay + 10) * TicksPerHour + 1

\* A store whose tables hold no row the read key can see.
EmptyStore ==
  [bot_state |-> {}, market_sentiment |-> <<>>, trade_logs |-> <<>>,
   system_logs |-> <<>>]

\* The store as the setup scripts leave it.
SeededStore ==
  [bot_state |-> {BotState("ATOM/DOT", FALSE, Null), BotState("SAND/MANA", FALSE, Null),
                  BotState("CRV/CVX", FALSE, Null)},
   market_sentiment |-> << [id |-> 1, risk_score |-> 35] >>,
   trade_logs |-> << TradeLog(1, "INIT", Num(0)) >>,
   system_logs |-> << SystemLog(1, StartNow, "SYSTEM", <<"System logs table initialized">>) >>]

\* Symbols in the collation order of ORDER BY symbol.
SymbolOrder ==
  <<"ATOM/DOT", "AVAX/NEAR", "CRV/CVX", "NEAR/FIL", "SAND/MANA", "SOL/LTC">>

SymbolRank(sym) == CHOOSE i \in 1..Len(SymbolOrder) : SymbolOrder[i] = sym

\* .order("symbol")
RECURSIVE OrderBySymbol(_)
OrderBySymbol(rows) ==
  IF rows = {} THEN <<>>
  ELSE LET first == CHOOSE r \in rows :
                      \A q \in rows : SymbolRank(r.symbol) <= SymbolRank(q.symbol)
       IN  <<first>> \o OrderBySymbol(rows \ {first})

\* .order("timestamp", { ascending: false }).limit(n) of a table kept in the
\* order its rows were appended.
NewestFirst(table, n) ==
  LET m == IF Len(table) < n THEN Len(table) ELSE n
  IN  [k \in 1..m |-> table[Len(table) + 1 - k]]

SENTIMENT_LIMIT == 1

TRADE_LOGS_LIMIT == 50

SYSTEM_LOGS_LIMIT == 200

\* The rows query number q returns from store st.
Select(st, q) ==
  CASE q = 1 -> OrderBySymbol(st.bot_state)
    [] q = 2 -> NewestFirst(st.market_sentiment, SENTIMENT_LIMIT)
    [] q = 3 -> NewestFirst(st.trade_logs, TRADE_LOGS_LIMIT)
    [] q = 4 -> NewestFirst(st.system_logs, SYSTEM_LOGS_LIMIT)

\* The outcome of an awaited query: { data, error } or a rejection.
DataResponse(rows) == [kind |-> "data", rows |-> rows]

ErrorResponse == [kind |-> "error", rows |-> <<>>]

ThrowResponse == [kind |-> "throw", rows |-> <<>>]

NoResponse == [kind |-> "none", rows |-> <<>>]

\* Mutant of Usable: the length test is left out.
Usable_NoLengthTest(resp) == resp.kind = "data"

\* !error && data && data.length > 0
Usable(resp) == resp.kind = "data" /\ Len(resp.rows) > 0

\* ------------------------------------------------------------------------
\* Number arithmetic: the result of an addition is rounded to the nearest
\* Number, ties to the even one.  Numbers are counted in thousandths.
\* ------------------------------------------------------------------------
Abs(x) == IF x < 0 THEN 0 - x ELSE x

RECURSIVE Pow10(_)
Pow10(n) == IF n = 0 THEN 1 ELSE 10 * Pow10(n - 1)

\* The weight of the last digit kept of x: the least power of ten u, from u
\* on, with |x| < u * 10^FloatDigits.
RECURSIVE UnitOf(_, _)
UnitOf(x, u) == IF Abs(x) < u * Pow10(FloatDigits) THEN u ELSE UnitOf(x, 10 * u)

RoundFloat(x) ==
  LET u  == UnitOf(x, 1)
      q  == Abs(x) \div u
      r  == Abs(x) % u
      up == 2 * r > u \/ (2 * r = u /\ q % 2 = 1)
      m  == (IF up THEN q + 1 ELSE q) * u
  IN  IF x < 0 THEN 0 - m ELSE m

\* a + b
Plus(a, b) == RoundFloat(a + b)

\* a?.[key]: undefined when the object has no such key.
Lookup(obj, key) == IF key \in DOMAIN obj THEN obj[key] ELSE Undefined

\* a ?? b
Nullish(a, b) == IF a \in {Undefined, Null} THEN b ELSE a

\* x || 0 for a number, null or undefined x, as a count of thousandths.
OrZero(x) == IF x.kind = "num" THEN x.v ELSE 0

\* x > 0 for a number, null or undefined x.
IsPositive(x) == x.kind = "num" /\ x.v > 0

\* ------------------------------------------------------------------------
\* The values Dashboard derives from its state at every render
\* ------------------------------------------------------------------------
\* tradeLogs.filter(l => l.type === "ENTRY" || l.type === "EXIT").length
TotalTradesOf(logs) ==
  Cardinality({i \in 1..Len(logs) : logs[i].type \in {"ENTRY", "EXIT"}})

\* Mutant of PnLSum: only ENTRY and EXIT events are added.
RECURSIVE PnLSum_TradesOnly(_)
PnLSum_TradesOnly(logs) ==
  IF logs = <<>> THEN 0
  ELSE LET l == logs[Len(logs)]
       IN  Plus(PnLSum_TradesOnly(SubSeq(logs, 1, Len(logs) - 1)),
                IF l.type \in {"ENTRY", "EXIT"} THEN OrZero(l.pnl_percent) ELSE 0)

\* tradeLogs.reduce((acc, l) => acc + (l.pnl_percent || 0), 0)
RECURSIVE PnLSum(_)
PnLSum(logs) ==
  IF logs = <<>> THEN 0
  ELSE Plus(PnLSum(SubSeq(logs, 1, Len(logs) - 1)), OrZero(logs[Len(logs)].pnl_percent))

\* botStates.filter(s => s.is_active).length
ActivePositionsOf(states) ==
  Cardinality({i \in 1..Len(states) : states[i].is_active})

\* The EXIT events of logs, and those of them with a positive PnL.
ExitsOf(logs) == {i \in 1..Len(logs) : logs[i].type = "EXIT"}

WinsOf(logs) == {i \in ExitsOf(logs) : IsPositive(logs[i].pnl_percent)}

\* Mutant of WinRateOf: the denominator is not floored at 1 but counts
\* every event.
WinRateOf_AllEvents(logs) ==
  [num |-> 100 * Cardinality(WinsOf(logs)), den |-> IF Len(logs) > 1 THEN Len(logs) ELSE 1]

\* winRate, as the fraction num / den:
\* filter(EXIT and pnl > 0).length / Math.max(1, filter(EXIT).length) * 100
WinRateOf(logs) ==
  [num |-> 100 * Cardinality(WinsOf(logs)),
   den |-> IF Cardinality(ExitsOf(logs)) > 1 THEN Cardinality(ExitsOf(logs)) ELSE 1]

pairNames == <<"ATOM/DOT", "SAND/MANA", "CRV/CVX">>

\* logs.find(l => l.source === pair && l.message.includes("Z-Score calculated")):
\* its position, 0 for undefined.
FindLog(logs, pair) ==
  LET hits == {i \in 1..Len(logs) : logs[i].source = pair /\ Includes(logs[i].message)}
  IN  IF hits = {} THEN 0 ELSE CHOOSE i \in hits : \A j \in hits : i <= j

\* extractZScoresFromLogs: the object zScores.
extractZScoresFromLogs(logs) ==
  LET found == {k \in 1..Len(pairNames) :
                  /\ FindLog(logs, pairNames[k]) # 0
                  /\ Match(logs[FindLog(logs, pairNames[k])].message) # <<>>}
  IN  [pair \in {pairNames[k] : k \in found} |->
         ParseFloat(Match(logs[FindLog(logs, pair)].message))]

\* PairCard's displayZ for the row state:
\* zScore={zScoresFromLogs[state.symbol] ?? state.current_z}, zScore ?? 0
DisplayZOf(state, logs) ==
  Nullish(Nullish(Lookup(extractZScoresFromLogs(logs), state.symbol), state.current_z),
          Num(0))

\* Mutant of IsTradingHaltedOf: the threshold itself halts.
IsTradingHaltedOf_AtThreshold(reading) == reading.risk_score >= 75

\* sentiment.risk_score > 75
IsTradingHaltedOf(reading) == reading.risk_score > 75

\* ------------------------------------------------------------------------
\* State
\* ------------------------------------------------------------------------
VARIABLES
  configured,     \* supabase !== null: both environment values are set
  store,          \* the backing store's tables
  writes,         \* rows the trading engine has written so far
  now,            \* the wall clock
  tz,             \* the browser's time zone
  botStates, sentiment, tradeLogs, systemLogs, zscoreHistory,
  isConnected, lastRefresh, isLoading, autoRefresh, mounted,
  timers,         \* intervals set and not cleared
  cycles,         \* the fetchData invocations in flight
  hist,           \* history of the latest cycle (kept by SoloSpec only)
  failures,       \* queries that have failed (counted by LiveSpec only)
  exLogs, exOut, exDone,  \* the extractor taken alone: input, output, position
  shown,          \* the values derived at the render taken alone
  migrations      \* times the migration script has been run

viewVars == <<botStates, sentiment, tradeLogs, systemLogs, zscoreHistory, lastRefresh>>

uiVars == <<isConnected, isLoading, autoRefresh, mounted, timers, cycles>>

envVars == <<configured, store, writes, now, tz>>

exVars == <<exLogs, exOut, exDone, shown, migrations>>

auxVars == <<hist, failures>>

vars == <<envVars, viewVars, uiVars, auxVars, exVars>>

\* The view-state as one value.
View ==
  [botStates |-> botStates, sentiment |-> sentiment, tradeLogs |-> tradeLogs,
   systemLogs |-> systemLogs, zscoreHistory |-> zscoreHistory,
   lastRefresh |-> lastRefresh]

MockView ==
  [botStates |-> MOCK_BOT_STATES, sentiment |-> MOCK_SENTIMENT,
   tradeLogs |-> MOCK_TRADE_LOGS, systemLogs |-> MOCK_SYSTEM_LOGS,
   zscoreHistory |-> <<>>, lastRefresh |-> INITIAL_TIMESTAMP]

\* A slot of cycles: pc = 0 when free, else the number of the query awaited;
\* resp is the outcome of that query once it is known.
IdleCycle == [pc |-> 0, resp |-> NoResponse]

Slots == 1..MaxInFlight

InFlight == {c \in Slots : cycles[c].pc # 0}

\* hist: the view-state when the latest cycle was called (pre), how many of
\* its queries resolved without an error (oks), whether one of them was
\* rejected (threw), and how it stands: "none" before the first call,
\* "running", "returned" (the try block ran to its end) or "raised" (the catch
\* block ran).
NoHist == [pre |-> MockView, oks |-> 0, threw |-> FALSE, ended |-> "none"]

\* The derived values of the state, as one value.
Derived ==
  [done |-> TRUE,
   totalTrades |-> TotalTradesOf(tradeLogs),
   totalPnL |-> PnLSum(tradeLogs),
   activePositions |-> ActivePositionsOf(botStates),
   winRate |-> WinRateOf(tradeLogs),
   displayZ |-> [i \in 1..Len(botStates) |-> DisplayZOf(botStates[i], systemLogs)],
   isTradingHalted |-> IsTradingHaltedOf(sentiment)]

NoRender ==
  [done |-> FALSE, totalTrades |-> 0, totalPnL |-> 0, activePositions |-> 0,
   winRate |-> [num |-> 0, den |-> 1], displayZ |-> <<>>, isTradingHalted |-> FALSE]

\* The useState initial values of Dashboard, before any effect has run.
DashboardInit ==
  /\ botStates = MOCK_BOT_STATES
  /\ sentiment = MOCK_SENTIMENT
  /\ tradeLogs = MOCK_TRADE_LOGS
  /\ systemLogs = MOCK_SYSTEM_LOGS
  /\ zscoreHistory = <<>>
  /\ isConnected = FALSE
  /\ lastRefresh = INITIAL_TIMESTAMP
  /\ isLoading = FALSE
  /\ autoRefresh = TRUE
  /\ mounted = FALSE
  /\ timers = 0
  /\ cycles = [c \in Slots |-> IdleCycle]

Init ==
  /\ configured \in BOOLEAN
  /\ store \in {EmptyStore, SeededStore}
  /\ writes = 0
  /\ now = StartNow
  /\ tz = UTCZone
  /\ DashboardInit
  /\ hist = NoHist
  /\ failures = 0
  /\ exLogs = <<>>
  /\ exOut = <<>>
  /\ exDone = FALSE
  /\ shown = NoRender
  /\ migrations = 0

\* ------------------------------------------------------------------------
\* fetchData
\* ------------------------------------------------------------------------
\* Mutant of CallFetchData: the test of the client is left out.
CallFetchData_NoClientTest ==
  /\ InFlight # Slots
  /\ LET c == CHOOSE x \in Slots : cycles[x].pc = 0
     IN  cycles' = [cycles EXCEPT ![c] = [pc |-> 1, resp |-> NoResponse]]
  /\ isLoading' = TRUE

\* A call of fetchData up to its first await: nothing when the client is
\* null, else setIsLoading(true) and the first query is sent.
CallFetchData ==
  IF ~configured
  THEN UNCHANGED <<isLoading, cycles>>
  ELSE /\ InFlight # Slots
       /\ LET c == CHOOSE x \in Slots : cycles[x].pc = 0
          IN  cycles' = [cycles EXCEPT ![c] = [pc |-> 1, resp |-> NoResponse]]
       /\ isLoading' = TRUE

\* The store answers the query cycle c awaits: the rows it holds now.
Serve(c) ==
  /\ cycles[c].pc # 0
  /\ cycles[c].resp = NoResponse
  /\ cycles' = [cycles EXCEPT ![c].resp = DataResponse(Select(store, cycles[c].pc))]
  /\ UNCHANGED <<envVars, viewVars, exVars, isConnected, isLoading, autoRefresh,
                 mounted, timers>>

\* Mutant of Catch: setIsConnected(false) is left out.
Catch_KeepsConnected(c) ==
  /\ isLoading' = FALSE
  /\ cycles' = [cycles EXCEPT ![c] = IdleCycle]
  /\ UNCHANGED <<viewVars, isConnected>>

\* The catch and finally blocks of fetchData.
Catch(c) ==
  /\ isConnected' = FALSE
  /\ isLoading' = FALSE
  /\ cycles' = [cycles EXCEPT ![c] = IdleCycle]
  /\ UNCHANGED viewVars

\* Mutant of Resume: the rows of an answer are put in front of the held rows
\* instead of replacing them.
Resume_Merging(c, resp) ==
  LET q == cycles[c].pc
      merged(held) == IF Usable(resp) THEN resp.rows \o held ELSE held
  IN  IF q < 4 /\ resp.kind = "throw" THEN Catch(c)
      ELSE /\ botStates' = IF q = 1 THEN merged(botStates) ELSE botStates
           /\ sentiment' = IF q = 2 /\ Usable(resp) THEN resp.rows[1] ELSE sentiment
           /\ tradeLogs' = IF q = 3 THEN merged(tradeLogs) ELSE tradeLogs
           /\ systemLogs' = IF q = 4 THEN merged(systemLogs) ELSE systemLogs
           /\ zscoreHistory' = IF q = 4 /\ Usable(resp)
                               THEN processZScoreHistory(resp.rows, now, tz)
                               ELSE zscoreHistory
           /\ isConnected' = IF q = 4 THEN TRUE ELSE isConnected
           /\ lastRefresh' = IF q = 4 THEN now ELSE lastRefresh
           /\ isLoading' = IF q = 4 THEN FALSE ELSE isLoading
           /\ cycles' = [cycles EXCEPT ![c] = IF q = 4 THEN IdleCycle
                                              ELSE [pc |-> q + 1, resp |-> NoResponse]]

\* Mutant of Resume: the system-log query is not wrapped in a try of its
\* own, so its rejection reaches the outer catch.
Resume_NoInnerTry(c, resp) ==
  LET q == cycles[c].pc
      rows(held) == IF Usable(resp) THEN resp.rows ELSE held
  IN  IF resp.kind = "throw" THEN Catch(c)
      ELSE /\ botStates' = IF q = 1 THEN rows(botStates) ELSE botStates
           /\ sentiment' = IF q = 2 /\ Usable(resp) THEN resp.rows[1] ELSE sentiment
           /\ tradeLogs' = IF q = 3 THEN rows(tradeLogs) ELSE tradeLogs
           /\ systemLogs' = IF q = 4 THEN rows(systemLogs) ELSE systemLogs
           /\ zscoreHistory' = IF q = 4 /\ Usable(resp)
                               THEN processZScoreHistory(resp.rows, now, tz)
                               ELSE zscoreHistory
           /\ isConnected' = IF q = 4 THEN TRUE ELSE isConnected
           /\ lastRefresh' = IF q = 4 THEN now ELSE lastRefresh
           /\ isLoading' = IF q = 4 THEN FALSE ELSE isLoading
           /\ cycles' = [cycles EXCEPT ![c] = IF q = 4 THEN IdleCycle
                                              ELSE [pc |-> q + 1, resp |-> NoResponse]]

\* The awaited query of cycle c resolves with resp: the statements of
\* fetchData from that await to the next one (or to the end).
Resume(c, resp) ==
  LET q == cycles[c].pc
  IN  CASE q = 1 ->
             IF resp.kind = "throw" THEN Catch(c)
             ELSE /\ botStates' = IF Usable(resp) THEN resp.rows ELSE botStates
                  /\ cycles' = [cycles EXCEPT ![c] = [pc |-> 2, resp |-> NoResponse]]
                  /\ UNCHANGED <<sentiment, tradeLogs, systemLogs, zscoreHistory,
                                 lastRefresh, isConnected, isLoading>>
        [] q = 2 ->
             IF resp.kind = "throw" THEN Catch(c)
             ELSE /\ sentiment' = IF Usable(resp) THEN resp.rows[1] ELSE sentiment
                  /\ cycles' = [cycles EXCEPT ![c] = [pc |-> 3, resp |-> NoResponse]]
                  /\ UNCHANGED <<botStates, tradeLogs, systemLogs, zscoreHistory,
                                 lastRefresh, isConnected, isLoading>>
        [] q = 3 ->
             IF resp.kind = "throw" THEN Catch(c)
             ELSE /\ tradeLogs' = IF Usable(resp) THEN resp.rows ELSE tradeLogs
                  /\ cycles' = [cycles EXCEPT ![c] = [pc |-> 4, resp |-> NoResponse]]
                  /\ UNCHANGED <<botStates, sentiment, systemLogs, zscoreHistory,
                                 lastRefresh, isConnected, isLoading>>
        [] q = 4 ->
             \* a rejection is caught by the inner try
             /\ systemLogs' = IF Usable(resp) THEN resp.rows ELSE systemLogs
             /\ zscoreHistory' = IF Usable(resp)
                                 THEN processZScoreHistory(resp.rows, now, tz)
                                 ELSE zscoreHistory
             /\ isConnected' = TRUE
             /\ lastRefresh' = now
             /\ isLoading' = FALSE
             /\ cycles' = [cycles EXCEPT ![c] = IdleCycle]
             /\ UNCHANGED <<botStates, sentiment, tradeLogs>>

\* The answer of the store reaches the dashboard.
Receive(c) ==
  /\ cycles[c].pc # 0
  /\ cycles[c].resp # NoResponse
  /\ Resume(c, cycles[c].resp)
  /\ UNCHANGED <<envVars, exVars, autoRefresh, mounted, timers>>

\* The query cycle c awaits fails before any answer: it resolves with an
\* error (r = ErrorResponse) or is rejected (r = ThrowResponse).
Fail(c, r) ==
  /\ cycles[c].pc # 0
  /\ cycles[c].resp = NoResponse
  /\ r \in {ErrorResponse, ThrowResponse}
  /\ Resume(c, r)
  /\ UNCHANGED <<envVars, exVars, autoRefresh, mounted, timers>>

\* ------------------------------------------------------------------------
\* Effects and buttons
\* ------------------------------------------------------------------------
\* The effects after the first render: setMounted(true); fetchData(); the
\* interval when autoRefresh is on.
Mount ==
  /\ ~mounted
  /\ mounted' = TRUE
  /\ CallFetchData
  /\ timers' = IF autoRefresh THEN 1 ELSE 0
  /\ UNCHANGED <<envVars, viewVars, exVars, isConnected, autoRefresh>>

\* Mutant of TimerTick: the interval fires and fetchData is not called.
TimerTick_NoFetch ==
  /\ timers > 0
  /\ UNCHANGED <<envVars, viewVars, exVars, uiVars>>

\* setInterval(fetchData, 15000) fires.
TimerTick ==
  /\ timers > 0
  /\ CallFetchData
  /\ UNCHANGED <<envVars, viewVars, exVars, isConnected, autoRefresh, mounted, timers>>

\* The Refresh button (disabled while isLoading).
ManualRefresh ==
  /\ mounted
  /\ ~isLoading
  /\ CallFetchData
  /\ UNCHANGED <<envVars, viewVars, exVars, isConnected, autoRefresh, mounted, timers>>

\* The Auto button: setAutoRefresh(!autoRefresh); the effect's cleanup clears
\* the interval, and the effect runs again: fetchData(), and a new interval
\* when autoRefresh is now on.
ToggleAutoRefresh ==
  /\ mounted
  /\ autoRefresh' = ~autoRefresh
  /\ CallFetchData
  /\ timers' = (IF autoRefresh THEN timers - 1 ELSE timers) + (IF autoRefresh' THEN 1 ELSE 0)
  /\ UNCHANGED <<envVars, viewVars, exVars, isConnected, mounted>>

\* ------------------------------------------------------------------------
\* The environment: the trading engine writes to the store; time passes
\* ------------------------------------------------------------------------
ZMessage == <<ZS, ":", " ", "1", ".", "2", "3">>

\* The rows the trading engine may write next.
EngineWrites ==
  LET old == IF \E r \in store.bot_state : r.symbol = "ATOM/DOT"
             THEN CHOOSE r \in store.bot_state : r.symbol = "ATOM/DOT"
             ELSE BotState("ATOM/DOT", FALSE, Null)
  IN  { [store EXCEPT !.bot_state =
           {r \in @ : r.symbol # "ATOM/DOT"}
             \cup {BotState("ATOM/DOT", ~old.is_active, Num(1230))}],
        [store EXCEPT !.market_sentiment =
           Append(@, [id |-> Len(@) + 1, risk_score |-> 76])],
        [store EXCEPT !.market_sentiment =
           Append(@, [id |-> Len(@) + 1, risk_score |-> 75])],
        [store EXCEPT !.trade_logs =
           Append(@, TradeLog(Len(@) + 1, "EXIT", Num(2000)))],
        [store EXCEPT !.system_logs =
           Append(@, SystemLog(Len(@) + 1, now, "ATOM/DOT", ZMessage))] }

EngineWrite ==
  /\ writes < MaxWrites
  /\ writes' = writes + 1
  /\ store' \in EngineWrites
  /\ UNCHANGED <<configured, now, tz, viewVars, uiVars, exVars>>

AdvanceClock ==
  /\ now < StartNow + MaxClock
  /\ now' = now + 1
  /\ UNCHANGED <<configured, store, writes, tz, viewVars, uiVars, exVars>>

\* ------------------------------------------------------------------------
\* The dashboard: any interleaving of cycles, clicks, writes and time
\* ------------------------------------------------------------------------
Next ==
  \/ Mount /\ UNCHANGED auxVars
  \/ TimerTick /\ UNCHANGED auxVars
  \/ ManualRefresh /\ UNCHANGED auxVars
  \/ ToggleAutoRefresh /\ UNCHANGED auxVars
  \/ \E c \in Slots : Serve(c) /\ UNCHANGED auxVars
  \/ \E c \in Slots : Receive(c) /\ UNCHANGED auxVars
  \/ \E c \in Slots : Fail(c, ErrorResponse) /\ UNCHANGED auxVars
  \/ \E c \in Slots : Fail(c, ThrowResponse) /\ UNCHANGED auxVars
  \/ EngineWrite /\ UNCHANGED auxVars
  \/ AdvanceClock /\ UNCHANGED auxVars

Spec == Init /\ [][Next]_vars

\* ------------------------------------------------------------------------
\* The dashboard with one cycle at a time (a call of fetchData only when none
\* is in flight), and the history of the latest cycle kept in hist.
\* ------------------------------------------------------------------------
SoloCall ==
  /\ InFlight = {}
  /\ hist' = IF configured
             THEN [pre |-> View, oks |-> 0, threw |-> FALSE, ended |-> "running"]
             ELSE hist
  /\ UNCHANGED failures

\* How the cycle in slot c stands after a step that resumed it.
EndedAfter(c, raised) ==
  IF cycles'[c].pc # 0 THEN "running" ELSE IF raised THEN "raised" ELSE "returned"

SoloReceive(c) ==
  /\ Receive(c)
  /\ hist' = [hist EXCEPT !.oks = @ + 1, !.ended = EndedAfter(c, FALSE)]
  /\ UNCHANGED failures

SoloFail(c, r) ==
  /\ Fail(c, r)
  /\ hist' = [hist EXCEPT !.threw = @ \/ r = ThrowResponse,
                          !.ended = EndedAfter(c, r = ThrowResponse /\ cycles[c].pc < 4)]
  /\ UNCHANGED failures

SoloNext ==
  \/ Mount /\ SoloCall
  \/ TimerTick /\ SoloCall
  \/ ManualRefresh /\ SoloCall
  \/ ToggleAutoRefresh /\ SoloCall
  \/ \E c \in Slots : Serve(c) /\ UNCHANGED auxVars
  \/ \E c \in Slots : SoloReceive(c)
  \/ \E c \in Slots : SoloFail(c, ErrorResponse)
  \/ \E c \in Slots : SoloFail(c, ThrowResponse)
  \/ EngineWrite /\ UNCHANGED auxVars
  \/ AdvanceClock /\ UNCHANGED auxVars

SoloSpec == Init /\ [][SoloNext]_vars

\* ------------------------------------------------------------------------
\* The configured dashboard with auto-refresh left on, at most MaxFailures
\* failing queries, and every pending step eventually taken: the effects
\* run, the interval fires, every query is answered and every answer arrives.
\* ------------------------------------------------------------------------
LiveInit == Init /\ configured

LiveFail(c, r) ==
  /\ failures < MaxFailures
  /\ failures' = failures + 1
  /\ Fail(c, r)
  /\ UNCHANGED hist

LiveMount == Mount /\ UNCHANGED auxVars

LiveTimerTick == TimerTick /\ UNCHANGED auxVars

LiveServe(c) == Serve(c) /\ UNCHANGED auxVars

LiveReceive(c) == Receive(c) /\ UNCHANGED auxVars

LiveNext ==
  \/ LiveMount
  \/ LiveTimerTick
  \/ ManualRefresh /\ UNCHANGED auxVars
  \/ \E c \in Slots : LiveServe(c)
  \/ \E c \in Slots : LiveReceive(c)
  \/ \E c \in Slots : LiveFail(c, ErrorResponse)
  \/ \E c \in Slots : LiveFail(c, ThrowResponse)
  \/ EngineWrite /\ UNCHANGED auxVars

\* LiveReceive(c) is enabled exactly while cycle c has an answer waiting and
\* leaves none waiting, so weak fairness of it is the condition that cycle c
\* is again and again without a waiting answer.
LiveSpec ==
  /\ LiveInit
  /\ [][LiveNext]_vars
  /\ WF_vars(LiveMount)
  /\ WF_vars(LiveTimerTick)
  /\ \A c \in Slots : WF_vars(LiveServe(c)) /\ []<>(cycles[c].resp = NoResponse)

\* ------------------------------------------------------------------------
\* The extractor taken alone: processZScoreHistory applied once to any
\* collection of at most MaxLogs log events, at any of the clock readings
\* ExNows, in any of the time zones.
\* ------------------------------------------------------------------------
\* 2026-03-08T14:30Z (the day the Eastern clocks change) and 2026-03-10T23:00Z.
ExNows ==
  { (62 * HoursPerDay + 14) * TicksPerHour + 1, (64 * HoursPerDay + 23) * TicksPerHour }

ExSources == {"ATOM/DOT", "SAND/MANA"}

ExMessages ==
  { <<ZS, ":", " ", "1", ".", "2", "3">>,
    <<ZS, ":", " ", "-", "0", ".", "5", " ", "x">>,
    <<"x">>,
    <<ZS, ":", " ", "-">>,
    <<ZS, ":", " ", ".">>,
    <<ZS, ":", " ", "-", "-", "1">>,
    <<ZS, ":", " ", "1", ".", "2", ".", "3">>,
    <<ZS, ":", " ">> }

\* Timestamps: in the current hour, the hour before, and the same hour one
\* day earlier.
ExTimes(t) == {t, t - TicksPerHour, t - HoursPerDay * TicksPerHour}

ExEvents(t) ==
  { SystemLog(0, ts, src, msg) : ts \in ExTimes(t), src \in ExSources, msg \in ExMessages }

RECURSIVE SeqsUpTo(_, _)
SeqsUpTo(S, n) ==
  IF n = 0 THEN {<<>>}
  ELSE LET shorter == SeqsUpTo(S, n - 1)
       IN  shorter \cup {Append(q, x) : q \in shorter, x \in S}

\* Bursts: MaxLogs + 1 events of one source, each in the current hour or in
\* the same hour one day earlier, with two well-formed readings and one
\* malformed one to choose from.
ExBurstEvents(t) ==
  { SystemLog(0, ts, "ATOM/DOT", msg) :
      ts \in {t, t - HoursPerDay * TicksPerHour},
      msg \in { <<ZS, ":", " ", "1", ".", "2", "3">>,
                <<ZS, ":", " ", "-", "0", ".", "5", " ", "x">>,
                <<ZS, ":", " ", "-">> } }

ExBursts(t) ==
  SeqsUpTo(ExBurstEvents(t), MaxLogs + 1) \ SeqsUpTo(ExBurstEvents(t), MaxLogs)

ExtractInit ==
  /\ configured = FALSE
  /\ store = EmptyStore
  /\ writes = 0
  /\ DashboardInit
  /\ hist = NoHist
  /\ failures = 0
  /\ now \in ExNows
  /\ tz \in TimeZones
  /\ exLogs \in SeqsUpTo(ExEvents(now), MaxLogs) \cup ExBursts(now)
  /\ exOut = <<>>
  /\ exDone = FALSE
  /\ shown = NoRender
  /\ migrations = 0

Extract ==
  /\ ~exDone
  /\ exOut' = processZScoreHistory(exLogs, now, tz)
  /\ exDone' = TRUE
  /\ UNCHANGED <<envVars, viewVars, uiVars, auxVars, exLogs, shown, migrations>>

ExtractNext == Extract

ExtractSpec == ExtractInit /\ [][ExtractNext]_vars

\* ------------------------------------------------------------------------
\* The render taken alone: the derived values computed once from any held
\* trade events (at most MaxTrades), or from any held positions, log events
\* (at most MaxLogs) and sentiment reading.
\* ------------------------------------------------------------------------
RTradeEvents ==
  { TradeLog(0, type, pnl) :
      type \in {"INIT", "ENTRY", "EXIT"},
      pnl \in {Num(2000), Num(0 - 1000), Num(4), Null} }

RBotStates ==
  { MOCK_BOT_STATES,
    << BotState("ATOM/DOT", TRUE, Num(500)), BotState("AVAX/NEAR", FALSE, Null) >>,
    << BotState("AVAX/NEAR", TRUE, Num(0 - 2100)), BotState("SAND/MANA", FALSE, Null) >> }

RLogEvents ==
  { SystemLog(0, StartNow, src, msg) :
      src \in {"ATOM/DOT", "AVAX/NEAR"},
      msg \in {ZMessage, <<ZS>>, <<ZS, ":", " ", "-">>, <<"x">>} }

RSentiments == { [id |-> 1, risk_score |-> r] : r \in {35, 75, 76} }

RenderInit ==
  /\ configured = FALSE
  /\ store = EmptyStore
  /\ writes = 0
  /\ now = StartNow
  /\ tz = UTCZone
  /\ \/ /\ tradeLogs \in SeqsUpTo(RTradeEvents, MaxTrades)
        /\ botStates = MOCK_BOT_STATES
        /\ systemLogs = MOCK_SYSTEM_LOGS
        /\ sentiment = MOCK_SENTIMENT
     \/ /\ tradeLogs = MOCK_TRADE_LOGS
        /\ botStates \in RBotStates
        /\ systemLogs \in SeqsUpTo(RLogEvents, MaxLogs) \ {<<>>}
        /\ sentiment \in RSentiments
  /\ zscoreHistory = <<>>
  /\ isConnected = FALSE
  /\ lastRefresh = INITIAL_TIMESTAMP
  /\ isLoading = FALSE
  /\ autoRefresh = TRUE
  /\ mounted = FALSE
  /\ timers = 0
  /\ cycles = [c \in Slots |-> IdleCycle]
  /\ hist = NoHist
  /\ failures = 0
  /\ exLogs = <<>>
  /\ exOut = <<>>
  /\ exDone = FALSE
  /\ shown = NoRender
  /\ migrations = 0

Render ==
  /\ ~shown.done
  /\ shown' = Derived
  /\ UNCHANGED <<envVars, viewVars, uiVars, auxVars, exLogs, exOut, exDone, migrations>>

RenderNext == Render

RenderSpec == RenderInit /\ [][RenderNext]_vars

\* ------------------------------------------------------------------------
\* v3_migration.sql run (at most MaxMigrations times) on any store whose
\* bot_state holds some of ATOM/DOT, SAND/MANA and AVAX/NEAR, each active or
\* not.
\* ------------------------------------------------------------------------
OldPairs == {"ATOM/DOT", "SAND/MANA", "CRV/CVX"}

NewPairs == {"AVAX/NEAR", "SOL/LTC", "NEAR/FIL"}

\* The row step 1 inserts for the active position of symbol sym.
ForcedExit(id, sym) ==
  [id |-> id, type |-> "EXIT", pnl_percent |-> Num(0), pair |-> sym, z_score |-> Num(0),
   comment |-> "FORCED EXIT: Pair rotation to V3.0 portfolio"]

\* The sequences that list every element of the set S once.
Listings(S) ==
  {q \in [1..Cardinality(S) -> S] : \A i, j \in 1..Cardinality(S) : q[i] = q[j] => i = j}

\* The stores the script may leave from st: step 1 inserts the forced exits
\* in whatever order the SELECT yields the active rows.
Migrations(st) ==
  LET active == {r \in st.bot_state : r.is_active}
      kept   == {r \in st.bot_state : r.symbol \notin OldPairs}
      fresh  == {BotState(sym, FALSE, Null) :
                   sym \in {n \in NewPairs : \A r \in kept : r.symbol # n}}
  IN  { [st EXCEPT
           !.trade_logs = @ \o [i \in 1..Cardinality(active) |->
                                 ForcedExit(Len(@) + i, q[i].symbol)],
           !.bot_state = kept \cup fresh,
           !.system_logs = Append(@, SystemLog(Len(@) + 1, now, "SYSTEM",
                                               <<"V3.0 Portfolio Migration Complete">>))]
        : q \in Listings(active) }

MStores ==
  { [SeededStore EXCEPT !.bot_state = rows, !.trade_logs = trades] :
      rows \in { {BotState(sym, a[sym], Null) : sym \in present} :
                   present \in SUBSET {"ATOM/DOT", "SAND/MANA", "AVAX/NEAR"},
                   a \in [{"ATOM/DOT", "SAND/MANA", "AVAX/NEAR"} -> BOOLEAN] },
      trades \in {<<>>, SeededStore.trade_logs} }

MigrationInit ==
  /\ configured = TRUE
  /\ store \in MStores
  /\ writes = 0
  /\ now = StartNow
  /\ tz = UTCZone
  /\ DashboardInit
  /\ hist = NoHist
  /\ failures = 0
  /\ exLogs = <<>>
  /\ exOut = <<>>
  /\ exDone = FALSE
  /\ shown = NoRender
  /\ migrations = 0

RunMigration ==
  /\ migrations < MaxMigrations
  /\ migrations' = migrations + 1
  /\ store' \in Migrations(store)
  /\ UNCHANGED <<configured, writes, now, tz, viewVars, uiVars, auxVars,
                 exLogs, exOut, exDone, shown>>

MigrationNext == RunMigration

MigrationSpec == MigrationInit /\ [][MigrationNext]_vars

\* ------------------------------------------------------------------------
\* What the claims about the fetch cycle speak of
\* ------------------------------------------------------------------------
\* The view-state held for the resource of query q.
Held(q) ==
  CASE q = 1 -> <<botStates>>
    [] q = 2 -> <<sentiment>>
    [] q = 3 -> <<tradeLogs>>
    [] q = 4 -> <<systemLogs, zscoreHistory>>

\* The rows held for the resource of query q.
HeldRows(q) ==
  CASE q = 1 -> botStates
    [] q = 2 -> <<sentiment>>
    [] q = 3 -> tradeLogs
    [] q = 4 -> systemLogs

\* This step resumes cycle c after the query it awaited.
Resumed(c) == cycles[c].pc # 0 /\ cycles'[c].pc # cycles[c].pc

\* This step ends cycle c.
Completed(c) == cycles[c].pc # 0 /\ cycles'[c].pc = 0

\* The query cycle c awaits has failed, or has answered with no row.
NothingUsable(c) == cycles[c].resp = NoResponse \/ ~Usable(cycles[c].resp)

\* C1: a cycle in which a query was rejected leaves the whole view-state as
\* it was when the cycle was called.
C1_RaisingCycleKeepsView ==
  (hist.ended \in {"raised", "returned"} /\ hist.threw) => View = hist.pre

\* C2: a query that fails or answers with no row leaves the view-state of its
\* resource unchanged, and no resource's view-state is ever empty.
C2_UnusableResultKeepsResource ==
  /\ [](botStates # <<>> /\ tradeLogs # <<>> /\ systemLogs # <<>>)
  /\ [][\A c \in Slots : \A q \in 1..4 :
          (cycles[c].pc = q /\ Resumed(c) /\ NothingUsable(c)) => Held(q)' = Held(q)]_vars

\* C2's case: a cycle has ended against a store that had no row at all, and
\* the placeholder data is still held.
C2_Witness ==
  /\ store = EmptyStore
  /\ writes = 0
  /\ isConnected
  /\ botStates = MOCK_BOT_STATES
  /\ systemLogs = MOCK_SYSTEM_LOGS

\* C3: connectivity is a boolean, starts DOWN, and changes only in the step
\* that ends a cycle: UP when the cycle returns (it ends after its fourth
\* query), DOWN when it raises (it ends before).
C3_ConnectivityMachine ==
  /\ isConnected = FALSE
  /\ [](isConnected \in BOOLEAN)
  /\ [][/\ isConnected' # isConnected => \E c \in Slots : Completed(c)
        /\ \A c \in Slots : Completed(c) => (isConnected' <=> cycles[c].pc = 4)]_vars

\* C3's case: a cycle has returned (the refresh time is set) and a later one
\* has raised.
C3_Witness == mounted /\ ~isConnected /\ lastRefresh # INITIAL_TIMESTAMP

\* C4: a cycle none of whose queries succeeded ends with connectivity DOWN
\* and the view-state retained.
C4_AllFailedMeansDown ==
  (hist.ended \in {"raised", "returned"} /\ hist.oks = 0) =>
    (~isConnected /\ View = hist.pre)

\* C5: without the client nothing is fetched: the placeholder data is held,
\* connectivity is DOWN, the loading indicator is off, no query is in flight.
C5_UnconfiguredStaysMock ==
  ~configured => (View = MockView /\ ~isConnected /\ ~isLoading /\ InFlight = {})

\* C5's case: without the client, the effect has run at mount and again
\* after the Auto button was pressed.
C5_Witness == ~configured /\ mounted /\ ~autoRefresh /\ timers = 0

\* The view-state of the resource of query q is the result of that query.
Synced(q) == HeldRows(q) = Select(store, q)

\* C6 as stated: every resource's view-state eventually equals its query's
\* result, for good.
C6_AllResourcesConverge == <>[](\A q \in 1..4 : Synced(q))

\* C6 as amended: every resource whose query returns at least one row
\* eventually has that result as view-state, for good.
C6_NonEmptyResourcesConverge ==
  <>[](\A q \in 1..4 : Select(store, q) # <<>> => Synced(q))

\* C6's case: the store was written to after the dashboard had caught up, and
\* the view-state holds the new rows of every table that has rows.
C6_Witness ==
  /\ writes = MaxWrites
  /\ \E q \in 1..4 : Select(store, q) # <<>>
  /\ \A q \in 1..4 : Select(store, q) # <<>> => Synced(q)
  /\ isConnected


\* ------------------------------------------------------------------------
\* What the claims about the extractor speak of
\* ------------------------------------------------------------------------
\* A signed decimal: an optional "-", then digits with at most one "." that
\* is neither first nor last.
IsSignedDecimal(s) ==
  LET b == IF Len(s) >= 1 /\ s[1] = "-" THEN 2 ELSE 1
  IN  /\ Len(s) >= b
      /\ \A i \in b..Len(s) : s[i] \in Digits \cup {"."}
      /\ s[b] \in Digits
      /\ s[Len(s)] \in Digits
      /\ Cardinality({i \in b..Len(s) : s[i] = "."}) <= 1

\* The message reads "Z-Score calculated: <signed-decimal>".
WellFormed(msg) == Match(msg) # <<>> /\ IsSignedDecimal(Match(msg))

\* The message contains "Z-Score calculated" and no signed decimal follows
\* the colon.
Malformed(msg) == Includes(msg) /\ ~WellFormed(msg)

\* The hour (UTC, from the epoch) of the k-th of the 24 hours that end at the
\* current hour.
WindowHour(k) == HourOf(now) - (HoursPerDay - k)

InWindow(log) == \E k \in 1..HoursPerDay : HourOf(log.timestamp) = WindowHour(k)

NotMalformed(log) == ~Malformed(log.message)

\* The sources under which bucket b holds a value.
SourcesOf(b) == DOMAIN b \ {"time"}

\* C7: the output has exactly 24 buckets, one per hour in increasing hour
\* order, the last being the current hour, each carrying its hour label.
C7_TwentyFourBuckets ==
  exDone =>
    /\ Len(exOut) = HoursPerDay
    /\ \A k \in 1..HoursPerDay :
         exOut[k]["time"] = Str(ToLocaleTimeString(WindowHour(k) * TicksPerHour, tz))

\* C8: a log event whose timestamp lies outside the 24 hours ending at the
\* current hour contributes to no bucket: the output is the output for the
\* events inside the window alone.
C8_OutsideWindowDropped ==
  exDone => exOut = processZScoreHistory(SelectSeq(exLogs, InWindow), now, tz)

\* C9: an event whose message contains "Z-Score calculated" without a valid
\* signed decimal after the colon records no value: no bucket holds NaN, and
\* the output is the output for the other events alone.
C9_MalformedDropped ==
  exDone =>
    /\ \A k \in 1..Len(exOut) : \A src \in SourcesOf(exOut[k]) : exOut[k][src] # NaN
    /\ exOut = processZScoreHistory(SelectSeq(exLogs, NotMalformed), now, tz)

\* Event i of the input is a well-formed reading of source src in the k-th
\* hour of the window.
ReadingAt(i, src, k) ==
  /\ exLogs[i].source = src
  /\ WellFormed(exLogs[i].message)
  /\ HourOf(exLogs[i].timestamp) = WindowHour(k)

\* C10: a bucket holds a value under key S exactly when some event has source
\* S, a message "Z-Score calculated: <signed-decimal>" and a timestamp in that
\* bucket's hour, and the value held is the value of such an event.
C10_BucketsMatchEvents ==
  exDone =>
    \A k \in 1..Len(exOut) : \A src \in ExSources :
      /\ src \in SourcesOf(exOut[k]) <=>
           \E i \in 1..Len(exLogs) : ReadingAt(i, src, k)
      /\ src \in SourcesOf(exOut[k]) =>
           \E i \in 1..Len(exLogs) :
             /\ ReadingAt(i, src, k)
             /\ exOut[k][src] = ParseFloat(Match(exLogs[i].message))

\* The events of the input that are well-formed readings of source src in
\* the k-th hour of the window.
ReadingsAt(src, k) == {i \in 1..Len(exLogs) : ReadingAt(i, src, k)}

\* The last of a non-empty set of positions of the input.
LastOf(R) == CHOOSE i \in R : \A j \in R : j <= i

\* C11: when several matching events of one source fall in the same hour
\* bucket, the bucket holds the value of the one that comes last in the
\* input; nothing is averaged or accumulated.
C11_LastWriterWins ==
  exDone =>
    \A k \in 1..Len(exOut) : \A src \in ExSources :
      Cardinality(ReadingsAt(src, k)) >= 2 =>
        /\ src \in SourcesOf(exOut[k])
        /\ exOut[k][src] = ParseFloat(Match(exLogs[LastOf(ReadingsAt(src, k))].message))

\* C11 when every event is inside the window, none is malformed and no
\* bucket was lost to a change of the clocks.
C11_LastWriterWinsOnCleanInput ==
  (/\ \A i \in 1..Len(exLogs) : InWindow(exLogs[i]) /\ NotMalformed(exLogs[i])
   /\ exDone => Len(exOut) = HoursPerDay)
    => C11_LastWriterWins

\* ------------------------------------------------------------------------
\* What the claims about the derived values speak of
\* ------------------------------------------------------------------------
\* The held log events that are well-formed readings of the pair sym.
ReadingsOf(sym) ==
  {j \in 1..Len(systemLogs) :
     systemLogs[j].source = sym /\ WellFormed(systemLogs[j].message)}

\* The Z-score the spec displays for the position row st.
SpecDisplayZ(st) ==
  IF ReadingsOf(st.symbol) # {}
  THEN ParseFloat(Match(systemLogs[CHOOSE j \in ReadingsOf(st.symbol) :
                                     \A k \in ReadingsOf(st.symbol) : j <= k].message))
  ELSE IF st.current_z.kind = "num" THEN st.current_z ELSE Num(0)

\* C12: for every pair shown, whatever its symbol, the displayed Z-score is
\* the value read from the held logs of that pair when there is one, else the
\* row's current_z when present, else zero.
C12_DisplayedZ ==
  shown.done =>
    \A i \in 1..Len(botStates) : shown.displayZ[i] = SpecDisplayZ(botStates[i])

\* C12 for the three original pairs and held logs whose Z-score messages are
\* all well-formed.
C12_DisplayedZOfOriginalPairs ==
  (/\ \A i \in 1..Len(botStates) :
        \E k \in 1..Len(pairNames) : botStates[i].symbol = pairNames[k]
   /\ \A j \in 1..Len(systemLogs) : NotMalformed(systemLogs[j]))
    => C12_DisplayedZ

\* The exit events among the held trade events, and the winning ones.
SpecExits == {i \in 1..Len(tradeLogs) : tradeLogs[i].type = "EXIT"}

SpecWins ==
  {i \in SpecExits : tradeLogs[i].pnl_percent.kind = "num" /\ tradeLogs[i].pnl_percent.v > 0}

\* C13: the win rate (the fraction num / den) lies in [0, 100], is 100 times
\* the winning exits over the exits, and is 0 when there is no exit; two
\* exits with PnL +2.0 and -1.0 give 50.
C13_WinRate ==
  shown.done =>
    LET w == shown.winRate
    IN  /\ w.den > 0
        /\ 0 <= w.num /\ w.num <= 100 * w.den
        /\ SpecExits # {} =>
             w.num * Cardinality(SpecExits) = 100 * Cardinality(SpecWins) * w.den
        /\ SpecExits = {} => w.num = 0
        /\ tradeLogs = << TradeLog(0, "EXIT", Num(2000)), TradeLog(0, "EXIT", Num(0 - 1000)) >>
             => w.num = 50 * w.den

\* C13's case: rendered with a winning exit, a losing exit and an event that
\* is no exit held.
C13_Witness ==
  /\ shown.done
  /\ Len(tradeLogs) = 3
  /\ Cardinality(SpecExits) = 2
  /\ Cardinality(SpecWins) = 1
  /\ shown.winRate.num = 50 * shown.winRate.den

\* The exact sum of the PnL field over logs, a missing PnL counted as 0.
RECURSIVE ExactSum(_)
ExactSum(logs) ==
  IF logs = <<>> THEN 0
  ELSE ExactSum(Tail(logs))
         + (IF Head(logs).pnl_percent.kind = "num" THEN Head(logs).pnl_percent.v ELSE 0)

\* The sum of the magnitudes of the PnL field over logs.
RECURSIVE SumAbs(_)
SumAbs(logs) ==
  IF logs = <<>> THEN 0
  ELSE SumAbs(Tail(logs))
         + (IF Head(logs).pnl_percent.kind = "num" THEN Abs(Head(logs).pnl_percent.v) ELSE 0)

\* The orderings of the held trade events.
Orderings ==
  LET n == Len(tradeLogs)
      perms == {p \in [1..n -> 1..n] : \A i, j \in 1..n : p[i] = p[j] => i = j}
  IN  {[i \in 1..n |-> tradeLogs[p[i]]] : p \in perms}

\* No partial sum of logs, taken from the left, has to be rounded.
NoRounding(logs) ==
  \A k \in 1..Len(logs) : RoundFloat(ExactSum(SubSeq(logs, 1, k))) = ExactSum(SubSeq(logs, 1, k))

\* C14 as stated: total PnL is the sum of the PnL field over all held trade
\* events, whatever their type, a missing PnL counted as 0, and it is the
\* same for every ordering of the list.
C14_TotalPnLAnyOrder ==
  shown.done =>
    /\ NoRounding(tradeLogs) => shown.totalPnL = ExactSum(tradeLogs)
    /\ \A o \in Orderings : PnLSum(o) = shown.totalPnL

\* C14 as amended: total PnL is the sum over all held trade events, whatever
\* their type, a missing PnL counted as 0, each partial sum rounded to a
\* Number.  It is the exact sum, the same for every ordering, when no
\* partial sum has to be rounded; otherwise every ordering's total is within
\* half a unit in the last place per addition of the exact sum.
C14_TotalPnLUpToRounding ==
  shown.done =>
    \A o \in Orderings :
      /\ NoRounding(o) => PnLSum(o) = ExactSum(tradeLogs)
      /\ 2 * Abs(PnLSum(o) - ExactSum(tradeLogs))
           <= Len(tradeLogs) * UnitOf(SumAbs(tradeLogs), 1)
      /\ o = tradeLogs => shown.totalPnL = PnLSum(o)

\* C14's case: rendered with an INIT event that carries a PnL, an event
\* without PnL and a third event held, the total being their exact sum.
C14_Witness ==
  /\ shown.done
  /\ Len(tradeLogs) = 3
  /\ \E i \in 1..3 : tradeLogs[i].type = "INIT" /\ tradeLogs[i].pnl_percent = Num(2000)
  /\ \E i \in 1..3 : tradeLogs[i].pnl_percent = Null
  /\ \E i \in 1..3 : tradeLogs[i].type = "EXIT" /\ tradeLogs[i].pnl_percent = Num(0 - 1000)
  /\ shown.totalPnL = 1000

\* The trading-halt banner of the dashboard: {isTradingHalted && (...)}.
isTradingHalted == IsTradingHaltedOf(sentiment)

\* C15: the banner is shown exactly when the held reading's risk score is
\* greater than 75: 76 shows it, 75 does not.
C15_HaltedAbove75 ==
  /\ isTradingHalted <=> sentiment.risk_score > 75
  /\ sentiment.risk_score = 76 => isTradingHalted
  /\ sentiment.risk_score = 75 => ~isTradingHalted

\* C15's case: a reading of 76 has been fetched over the placeholder reading
\* and the banner is shown.
C15_Witness == isConnected /\ sentiment.risk_score = 76 /\ isTradingHalted

\* The rows of trade_logs that this step appended.
AppendedTrades ==
  SubSeq(store'.trade_logs, Len(store.trade_logs) + 1, Len(store'.trade_logs))

\* The positions active before this step.
ActiveBefore == {r \in store.bot_state : r.is_active}

\* C16: a run of the migration appends exactly one EXIT trade event with PnL
\* 0 and Z-score 0 for each position that was active, and leaves no position
\* row of the store active.
C16_MigrationClosesAll ==
  [][migrations' = migrations + 1 =>
       /\ SubSeq(store'.trade_logs, 1, Len(store.trade_logs)) = store.trade_logs
       /\ Len(AppendedTrades) = Cardinality(ActiveBefore)
       /\ \A r \in ActiveBefore :
            Cardinality({i \in 1..Len(AppendedTrades) : AppendedTrades[i].pair = r.symbol}) = 1
       /\ \A i \in 1..Len(AppendedTrades) :
            /\ AppendedTrades[i].type = "EXIT"
            /\ AppendedTrades[i].pnl_percent = Num(0)
            /\ AppendedTrades[i].z_score = Num(0)
       /\ \A r \in store'.bot_state : ~r.is_active]_vars

\* C16 for runs on a store whose active positions are all of the old pairs.
C16_MigrationClosesOldPairs ==
  [][(migrations' = migrations + 1 /\ \A r \in ActiveBefore : r.symbol \in OldPairs)
       => /\ Len(AppendedTrades) = Cardinality(ActiveBefore)
          /\ \A r \in store'.bot_state : ~r.is_active]_vars

\* The placeholder rows of resource q.
PlaceholderRows(q) ==
  CASE q = 1 -> MOCK_BOT_STATES
    [] q = 2 -> <<MOCK_SENTIMENT>>
    [] q = 3 -> MOCK_TRADE_LOGS
    [] q = 4 -> MOCK_SYSTEM_LOGS

\* In this step the dashboard takes delivery of the answer to query q of
\* cycle c.
Delivers(c, q) ==
  cycles[c].pc = q /\ cycles[c].resp # NoResponse /\ cycles'[c] # cycles[c]

\* C17: with fetch cycles overlapping, the rows held of each resource start
\* as the placeholder and change only in a step that delivers a successful
\* non-empty answer to that resource's query, and then to exactly the rows of
\* that one answer: so they are always the placeholder or the complete rows
\* of the answer delivered last, never a mixture.
C17_WholesaleLastWriteWins ==
  /\ \A q \in 1..4 : HeldRows(q) = PlaceholderRows(q)
  /\ [][\A q \in 1..4 :
          IF \E c \in Slots : Delivers(c, q) /\ Usable(cycles[c].resp)
          THEN \E c \in Slots : /\ Delivers(c, q)
                                 /\ HeldRows(q)' = cycles[c].resp.rows
          ELSE HeldRows(q)' = HeldRows(q)]_vars

\* C17's case: two cycles overlap, the later one has an answer for the
\* positions waiting that differs from the rows the earlier one wrote.
C17_Witness ==
  \E c, d \in Slots :
    /\ cycles[c].pc > 1
    /\ cycles[d].pc = 1
    /\ cycles[d].resp # NoResponse
    /\ Usable(cycles[d].resp)
    /\ botStates # MOCK_BOT_STATES
    /\ botStates # cycles[d].resp.rows

\* C18: in every reachable state, the initial one included, the displayed
\* hourly series is the extractor applied to the system logs held now.
C18_SeriesDerivedFromHeldLogs ==
  zscoreHistory = processZScoreHistory(systemLogs, now, tz)

\* C18 at the moment of a write: the step that takes delivery of a usable
\* answer to the system-log query leaves the series equal to the extractor
\* applied to the logs it stored.
C18_SeriesComputedAtWrite ==
  [][\A c \in Slots :
       (Delivers(c, 4) /\ Usable(cycles[c].resp))
         => zscoreHistory' = processZScoreHistory(systemLogs', now', tz')]_vars

\* C19: while any fetch cycle is in flight the loading indicator is active.
C19_LoadingWhileInFlight == InFlight # {} => isLoading

\* C19 without overlap: while exactly one cycle has been started and none has
\* ended since, the indicator is active; and with no cycle in flight after
\* the first one it is inactive.
C19_LoadingWhileSoleCycle ==
  /\ [][\A c \in Slots : (InFlight = {} /\ cycles'[c].pc # 0) => isLoading']_vars
  /\ [][\A c \in Slots : Completed(c) => ~isLoading']_vars
  /\ [][(InFlight # {} /\ InFlight' = InFlight) => isLoading' = isLoading]_vars

\* In this step the system-log query of cycle c, the last of the cycle after
\* three queries that did not raise, fails: it resolves with an error or is
\* rejected before any answer.
LogQueryFails(c) ==
  /\ cycles[c].pc = 4
  /\ cycles[c].resp = NoResponse
  /\ cycles'[c] # cycles[c]
  /\ cycles'[c].resp = NoResponse

\* C20: when the system-log query of a cycle fails, the cycle ends there
\* with connectivity UP and the last-refresh time set to the present, the
\* positions, sentiment and trades it applied stay applied, and the held
\* system logs and series stay as they were.
C20_LogFailureSwallowed ==
  [][\A c \in Slots :
       LogQueryFails(c) =>
         /\ Completed(c)
         /\ isConnected'
         /\ lastRefresh' = now
         /\ ~isLoading'
         /\ botStates' = botStates
         /\ sentiment' = sentiment
         /\ tradeLogs' = tradeLogs
         /\ systemLogs' = systemLogs
         /\ zscoreHistory' = zscoreHistory]_vars

\* C20's case: the store has system logs and has not been written to, a
\* cycle has applied its positions, sentiment and trades and has ended UP,
\* and the held logs and series are still the initial ones: its log query
\* failed.
C20_Witness ==
  /\ store = SeededStore
  /\ writes = 0
  /\ InFlight = {}
  /\ isConnected
  /\ lastRefresh # INITIAL_TIMESTAMP
  /\ botStates = Select(store, 1)
  /\ botStates # MOCK_BOT_STATES
  /\ <<sentiment>> = Select(store, 2)
  /\ sentiment # MOCK_SENTIMENT
  /\ tradeLogs = Select(store, 3)
  /\ systemLogs = MOCK_SYSTEM_LOGS
  /\ zscoreHistory = <<>>

\* The rows of market_sentiment, trade_logs and system_logs are only ever
\* appended, with growing ids, and a query returns the newest first: the id
\* of its first row tells how late a snapshot was read.
Stamp(rows) == rows[1].id

\* C21: the rows held of a resource are never replaced by a snapshot read
\* from the store earlier than the snapshot held (stated for the three
\* append-only resources, whose snapshots carry their age).
C21_ViewNeverRegresses ==
  [][\A q \in 2..4 : \A c \in Slots :
       (/\ Delivers(c, q)
        /\ Usable(cycles[c].resp)
        /\ HeldRows(q) # PlaceholderRows(q))
         => Stamp(HeldRows(q)') >= Stamp(HeldRows(q))]_vars

\* In this step a fetch cycle starts.
CycleStarts == \E c \in Slots : cycles[c].pc = 0 /\ cycles'[c].pc # 0

\* C22: at most one polling timer exists; while auto-refresh is off a cycle
\* starts only by the Refresh button; switching auto-refresh off cancels the
\* timer and starts no cycle.
C22_OneTimerManualOnly ==
  /\ [](timers \in {0, 1})
  /\ [][(~autoRefresh /\ ~autoRefresh' /\ CycleStarts) => ManualRefresh]_vars
  /\ [][(autoRefresh /\ ~autoRefresh') => (timers' = 0 /\ ~CycleStarts)]_vars

\* C22 without its last clause: at most one timer, which exists exactly
\* while the dashboard is mounted with auto-refresh on; with auto-refresh
\* staying off a cycle starts only by the Refresh button.
C22_OneTimerCancelledWhenOff ==
  /\ [](timers = IF mounted /\ autoRefresh THEN 1 ELSE 0)
  /\ [][(~autoRefresh /\ ~autoRefresh' /\ CycleStarts) => ManualRefresh]_vars

====
